---- MODULE Spec2Model ----
(***************************************************************************)
(* Model of go-pm: the ProcessManager (pm.go) and its near-duplicate, the  *)
(* Restarter (restarter.go).  A supervisor acquires a listener (imported   *)
(* from the LISTENER environment variable or freshly bound), serves on it, *)
(* and runs a control loop over OS signals and the Subordinate's error and *)
(* done channels, forking a child and/or shutting the server down.         *)
(***************************************************************************)
EXTENDS Integers, Sequences, FiniteSets, TLC

(* ------------------------------ bounds -------------------------------- *)
\* OS signals delivered to one process during one run of the loop.
MaxSignals == 2
\* Values the Subordinate sends on its two channels during one run.
MaxSubEvents == 2
\* Generations after the first process in a chain of handoffs.
MaxGenerations == 2
\* Triggers received by the two loops run side by side.
MaxReceived == 3

(* --------------------------- program constants ------------------------ *)
DefaultAddress == ":8080"
\* make(chan os.Signal, 1024)
SignalCap == 1024
\* Listener{FD: 3} in ForkChild: the slot of the listener in the child.
ChildFD == 3

Addresses == {":8080", ":8008"}
Filenames == {"tcp:[::]:8008->"}

(* ------------------- LISTENER text and its decoding ------------------- *)
\* A JSON value of one object member: absent, a string or a number.
Missing == [t |-> "missing", s |-> "", n |-> 0]
Str(s) == [t |-> "str", s |-> s, n |-> 0]
Num(n) == [t |-> "num", s |-> "", n |-> n]

\* The text of the LISTENER variable: unset/empty, not JSON, the JSON
\* literal null, or a JSON object with some of the three members.
NoMembers == [address |-> Missing, fd |-> Missing, filename |-> Missing]
EmptyText == [kind |-> "empty", m |-> NoMembers]
GarbageText == [kind |-> "garbage", m |-> NoMembers]
NullText == [kind |-> "null", m |-> NoMembers]
ObjectText(a, f, n) == [kind |-> "object", m |-> [address |-> a, fd |-> f, filename |-> n]]

\* type Listener struct { Address string; FD int; Filename string }
Listener(a, f, n) == [Address |-> a, FD |-> f, Filename |-> n]
ZeroListener == Listener("", 0, "")

\* json.Marshal(l): an object with all three members.
Marshal(l) == ObjectText(Str(l.Address), Num(l.FD), Str(l.Filename))

\* json.Unmarshal([]byte(listenerEnv), &l): a syntax error for text that is
\* not JSON, a type error for a member of the wrong JSON type; a missing
\* member (and the literal null) leaves the field at its zero value.
Unmarshal(text) ==
  CASE text.kind \in {"empty", "garbage"} -> [err |-> "SyntaxError", l |-> ZeroListener]
    [] text.kind = "null" -> [err |-> "nil", l |-> ZeroListener]
    [] OTHER ->
      LET m == text.m
          bad == \/ m.address.t = "num"
                 \/ m.fd.t = "str"
                 \/ m.filename.t = "num"
          l == Listener(IF m.address.t = "str" THEN m.address.s ELSE "",
                        IF m.fd.t = "num" THEN m.fd.n ELSE 0,
                        IF m.filename.t = "str" THEN m.filename.s ELSE "")
      IN  [err |-> IF bad THEN "UnmarshalTypeError" ELSE "nil", l |-> l]

(* ------------------------- file descriptors --------------------------- *)
\* What the process's descriptor table holds at a number: descriptors 0..2
\* are stdio, descriptor 3 is whatever the parent left there (fd3), any
\* other number is closed.
ClosedFD == [kind |-> "closed", addr |-> ""]
StdioFD == [kind |-> "file", addr |-> ""]
SocketFD(k, a) == [kind |-> k, addr |-> a]
FileAt(fd, fd3) ==
  IF fd = ChildFD THEN fd3 ELSE IF fd \in 0..2 THEN StdioFD ELSE ClosedFD

NilListener == [kind |-> "nil", addr |-> "", origin |-> "none"]

(* ------------------------ listener acquisition ------------------------ *)
\* The address every method substitutes for an empty p.Address.
OrDefault(address) == IF address = "" THEN DefaultAddress ELSE address

\* The address check left out.
AddressMismatch_Unchecked(l, address) == FALSE

\* if l.Address != address { return nil, fmt.Errorf(...) }
AddressMismatch(l, address) == l.Address # address

\* ImportListener: res is "ok", "error" or "panic"; steps lists the calls it
\* made, in order; Address is p.Address when it returns.
ImportListener(Address, listenerEnv, fd3) ==
  LET r(res, err, ln, addr, steps) ==
        [res |-> res, err |-> err, ln |-> ln, Address |-> addr, steps |-> steps]
      u == Unmarshal(listenerEnv)
      address == OrDefault(Address)
      f == FileAt(u.l.FD, fd3)
  IN  IF listenerEnv.kind = "empty"
      THEN r("error", "NoListenerEnv", NilListener, Address, <<"Getenv">>)
      ELSE IF u.err # "nil"
      THEN r("error", u.err, NilListener, Address, <<"Getenv", "Unmarshal">>)
      ELSE IF AddressMismatch(u.l, address)
      THEN r("error", "AddressMismatch", NilListener, address,
             <<"Getenv", "Unmarshal", "AddressCheck">>)
      ELSE IF u.l.FD < 0
      \* os.NewFile returns nil; the error message then calls err.Error()
      \* on the nil err left by Unmarshal.
      THEN r("panic", "NilDereference", NilListener, address,
             <<"Getenv", "Unmarshal", "AddressCheck", "NewFile">>)
      ELSE IF f.kind \notin {"tcp", "unix"}
      THEN r("error", "FileListenerError", NilListener, address,
             <<"Getenv", "Unmarshal", "AddressCheck", "NewFile", "FileListener">>)
      ELSE r("ok", "nil", [kind |-> f.kind, addr |-> f.addr, origin |-> "imported"],
             address,
             <<"Getenv", "Unmarshal", "AddressCheck", "NewFile", "FileListener">>)

\* CreateListener: net.Listen("tcp", address) succeeds or fails as the OS
\* decides (bindOK).
CreateListener(Address, bindOK) ==
  LET address == OrDefault(Address)
  IN  IF bindOK
      THEN [err |-> "nil", Address |-> address,
            ln |-> [kind |-> "tcp", addr |-> address, origin |-> "created"]]
      ELSE [err |-> "BindError", Address |-> address, ln |-> NilListener]

\* No fallback: the import's error is returned.
CreateOrImportListener_NoFallback(Address, listenerEnv, fd3, bindOK) ==
  LET i == ImportListener(Address, listenerEnv, fd3)
  IN  [res |-> IF i.err = "nil" THEN "ok" ELSE i.res, err |-> i.err,
       NetListener |-> i.ln, Address |-> OrDefault(i.Address), imp |-> i]

\* CreateOrImportListener: import, and on any import error create.
CreateOrImportListener(Address, listenerEnv, fd3, bindOK) ==
  LET i == ImportListener(Address, listenerEnv, fd3)
      c == CreateListener(i.Address, bindOK)
  IN  IF i.res = "panic"
      THEN [res |-> "panic", err |-> i.err, NetListener |-> NilListener,
            Address |-> i.Address, imp |-> i]
      ELSE IF i.err = "nil"
      THEN [res |-> "ok", err |-> "nil", NetListener |-> i.ln,
            Address |-> i.Address, imp |-> i]
      ELSE IF c.err # "nil"
      THEN [res |-> "error", err |-> c.err, NetListener |-> NilListener,
            Address |-> c.Address, imp |-> i]
      ELSE [res |-> "ok", err |-> "nil", NetListener |-> c.ln,
            Address |-> c.Address, imp |-> i]

(* ---------------------------- child spawner ---------------------------- *)
\* GetListenerFile: the *os.File of a TCP or Unix listener; fileOK is whether
\* the listener's File() call (a dup of the descriptor) succeeds.
GetListenerFile(ln, fileOK) ==
  IF ln.kind = "nil" THEN [err |-> "NilPtr", name |-> ""]
  ELSE IF ln.kind \notin {"tcp", "unix"} THEN [err |-> "UnsupportedListener", name |-> ""]
  ELSE IF ~fileOK THEN [err |-> "FileError", name |-> ""]
  ELSE [err |-> "nil", name |-> CHOOSE n \in Filenames : TRUE]

\* What the OS may do to one ForkChild call: every step succeeds, or File(),
\* os.Executable() or os.StartProcess() fails.
ForkOutcomes == {"ok", "FileError", "ExecutableError", "StartProcessError"}

\* ForkChild: err is the error returned ("nil" when the child was started),
\* listenerEnv the LISTENER text put in the child's environment.
ForkChild(ln, Address, os) ==
  LET f == GetListenerFile(ln, os # "FileError")
      address == OrDefault(Address)
      l == Listener(address, ChildFD, f.name)
  IN  IF f.err # "nil"
      THEN [err |-> f.err, Address |-> Address, listenerEnv |-> EmptyText]
      ELSE IF os # "ok"
      THEN [err |-> os, Address |-> address, listenerEnv |-> EmptyText]
      ELSE [err |-> "nil", Address |-> address, listenerEnv |-> Marshal(l)]

\* environment := append(os.Environ(), "LISTENER="+string(listenerEnv)): the
\* LISTENER entries of the child's environment are the parent's own, in
\* order, followed by the new one.
ChildEnviron(environ, text) == Append(environ, text)

\* os.Getenv("LISTENER") with several LISTENER entries in the environment:
\* the Go runtime keeps the first mention of a key; no entry reads as "".
Getenv(environ) == IF environ = <<>> THEN EmptyText ELSE environ[1]

(* ------------------------------ the loop ------------------------------ *)
Signals == {"SIGHUP", "SIGUSR2", "SIGINT", "SIGQUIT"}

\* SIGINT listed with SIGHUP instead of SIGQUIT.
SignalCase_InterruptRestarts(s) ==
  CASE s \in {"SIGHUP", "SIGINT"} -> "handoff"
    [] s = "SIGUSR2" -> "fork"
    [] OTHER -> "shutdown"

\* The SIGQUIT label missing from the shutdown case: the switch has no
\* branch for it and the loop goes on.
SignalCase_QuitIgnored(s) ==
  CASE s = "SIGHUP" -> "handoff"
    [] s = "SIGUSR2" -> "fork"
    [] s = "SIGQUIT" -> "none"
    [] OTHER -> "shutdown"

\* switch s { ... } of the signal case: what the loop does with a signal.
SignalCase(s) ==
  CASE s = "SIGHUP" -> "handoff"
    [] s = "SIGUSR2" -> "fork"
    [] OTHER -> "shutdown"

\* The case nil label missing: a nil error is handled by the default case.
ErrorCase_NilRestarts(e) == "restart"

\* switch e { case nil: default: ... } of the error case.
ErrorCase(e) == IF e = "nil" THEN "none" ELSE "restart"

\* The received boolean is not looked at.
DoneCase_IgnoresValue(im, b) == "shutdown"

\* Restarter's done case with its labels exchanged: true is ignored.
DoneCase_RestarterIgnoresTrue(im, b) ==
  IF im = "pm" THEN "shutdown" ELSE IF b = "true" THEN "none" ELSE "shutdown"

\* The done case: ProcessManager shuts down on any receipt from the
\* chan struct{}, Restarter only on a received true.
DoneCase(im, b) ==
  IF im = "pm" THEN "shutdown" ELSE IF b = "false" THEN "none" ELSE "shutdown"

\* SIGUSR2 handled like SIGHUP: the server is shut down after the fork.
AfterFork_Usr2ShutsDown(case, err) ==
  IF err # "nil" THEN [next |-> "continue", clearSub |-> FALSE]
  ELSE IF case \in {"handoff", "fork"} THEN [next |-> "shutdown", clearSub |-> TRUE]
  ELSE [next |-> "shutdown", clearSub |-> FALSE]

\* The continue after a failed fork missing in the SIGHUP branch.
AfterFork_HupNoContinue(case, err) ==
  IF case = "handoff" THEN [next |-> "shutdown", clearSub |-> TRUE]
  ELSE IF err # "nil" \/ case = "fork" THEN [next |-> "continue", clearSub |-> FALSE]
  ELSE [next |-> "shutdown", clearSub |-> FALSE]

\* The continue after a failed fork missing in the error branch.
AfterFork_ErrNoContinue(case, err) ==
  IF case = "restart" THEN [next |-> "shutdown", clearSub |-> FALSE]
  ELSE IF err # "nil" \/ case = "fork" THEN [next |-> "continue", clearSub |-> FALSE]
  ELSE [next |-> "shutdown", clearSub |-> TRUE]

\* Sub cleared after a successful fork in the SIGUSR2 branch too.
AfterFork_Usr2ClearsSub(case, err) ==
  IF err # "nil" THEN [next |-> "continue", clearSub |-> FALSE]
  ELSE IF case = "handoff" THEN [next |-> "shutdown", clearSub |-> TRUE]
  ELSE IF case = "fork" THEN [next |-> "continue", clearSub |-> TRUE]
  ELSE [next |-> "shutdown", clearSub |-> FALSE]

\* What follows a ForkChild that returned err, by the case being handled:
\* continue on an error; after SIGHUP clear Sub and shut down; after SIGUSR2
\* go on with the loop; after a Subordinate error shut down.
AfterFork(case, err) ==
  IF err # "nil" THEN [next |-> "continue", clearSub |-> FALSE]
  ELSE IF case = "handoff" THEN [next |-> "shutdown", clearSub |-> TRUE]
  ELSE IF case = "fork" THEN [next |-> "continue", clearSub |-> FALSE]
  ELSE [next |-> "shutdown", clearSub |-> FALSE]

\* Server.Shutdown(ctx) with the 5-second context: nil when the server
\* drained within the grace period, the context's error otherwise.
Shutdown(drained) == IF drained THEN "nil" ELSE "DeadlineExceeded"

\* The result of Server.Shutdown dropped.
RunResult_Swallow(shutdownErr, forkError) == "nil"

\* return p.Server.Shutdown(ctx)
RunResult(shutdownErr, forkError) == shutdownErr

\* Values the Subordinate may send.
ErrorValues == {"nil", "err"}
DoneValues(im) == IF im = "pm" THEN {"unit"} ELSE {"true", "false"}

VARIABLES
  impl,        \* "pm" (ProcessManager) or "rs" (Restarter)
  gen,         \* how many ForkChild calls lie between the first process and this one
  environ,     \* the LISTENER entries of this process's environment, in order
  handed,      \* the LISTENER text the parent's ForkChild encoded for this process
  elderOpen,   \* an older generation still has the socket passed at descriptor 3 open
  stopHandled, \* an older generation handled SIGINT, SIGQUIT or done
  pair,        \* a ProcessManager.Run and a Restarter.Run fed the same triggers
  received,    \* the triggers the two have received, in order
  Address,     \* p.Address
  listenerEnv, \* the LISTENER variable of this process
  fd3,         \* what this process inherited at descriptor 3
  NetListener, \* p.NetListener
  Server,      \* p.Server: "none", "serving", "shuttingdown", "closed"
  Signal,      \* p.Signal, the buffered channel of OS signals
  Sub,         \* p.Sub: "nil" or "x"
  chError,     \* values the Subordinate is sending on Sub.Error()
  chDone,      \* values the Subordinate is sending on Sub.Done()
  pc,          \* where the process is
  trigger,     \* the value the loop dequeued last
  case,        \* the branch the loop took for it
  acts,        \* the calls the loop made while handling it, in order
  inFork,      \* ForkChild calls in progress
  forkErr,     \* what the last ForkChild returned
  shutdownRes, \* what Server.Shutdown returned
  ret,         \* what Run returned
  imp,         \* what the last ImportListener call did
  acqErr,      \* what CreateOrImportListener returned
  newErr,      \* what NewProcessManager / NewRestarter returned
  spawned,     \* LISTENER texts given to the children started so far
  delivered,   \* OS signals delivered so far
  sent         \* values sent by the Subordinate so far

vars == <<impl, gen, environ, handed, elderOpen, stopHandled, pair, received, Address, listenerEnv, fd3, NetListener, Server, Signal, Sub,
          chError, chDone, pc, trigger, case, acts, inFork, forkErr,
          shutdownRes, ret, imp, acqErr, newErr, spawned, delivered, sent>>

procVars == <<impl, gen, environ, handed, elderOpen, stopHandled, pair, received,
              listenerEnv, fd3>>
acqVars == <<Address, NetListener, imp, acqErr, newErr>>
loopVars == <<trigger, case, acts, inFork, forkErr, shutdownRes, ret, spawned>>
chanVars == <<Signal, chError, chDone, delivered, sent>>

\* A loop just after signal.Notify in Run: at its select, Sub assigned, the
\* server serving, nothing called yet.
LoopStart == [pc |-> "select", Sub |-> "x", Server |-> "serving", log |-> <<>>, ret |-> "none"]
StartPair == [pm |-> LoopStart, rs |-> LoopStart]

NoImport == [res |-> "none", err |-> "none", ln |-> NilListener, Address |-> "", steps |-> <<>>]

\* The state of a process before its supervisor is constructed.
Fresh ==
  /\ NetListener = NilListener
  /\ Server = "none"
  /\ Signal = <<>>
  /\ Sub = "nil"
  /\ chError = <<>>
  /\ chDone = <<>>
  /\ pc = "start"
  /\ trigger = "none"
  /\ case = "none"
  /\ acts = <<>>
  /\ inFork = 0
  /\ forkErr = "none"
  /\ shutdownRes = "none"
  /\ ret = "none"
  /\ imp = NoImport
  /\ acqErr = "none"
  /\ newErr = "none"
  /\ spawned = <<>>
  /\ delivered = 0
  /\ sent = 0

\* The process is started either first (no LISTENER, nothing at descriptor
\* 3) or by ForkChild of a parent serving ":8008".
Init ==
  /\ impl \in {"pm", "rs"}
  /\ Address = ":8008"
  /\ stopHandled = FALSE
  /\ pair = StartPair
  /\ received = <<>>
  /\ \/ /\ gen = 0
        /\ handed = EmptyText
        /\ environ = <<>>
        /\ fd3 = ClosedFD
        /\ elderOpen = FALSE
     \/ /\ gen = 1
        /\ elderOpen = TRUE
        /\ handed = Marshal(Listener(":8008", ChildFD, CHOOSE n \in Filenames : TRUE))
        /\ environ = <<handed>>
        /\ fd3 = SocketFD("tcp", ":8008")
  /\ listenerEnv = Getenv(environ)
  /\ Fresh

(* ---------------------------- construction ---------------------------- *)
\* StartServer: registers the handler, builds p.Server and starts Serve on
\* its own goroutine.  The err it returns is written by that goroutine when
\* Serve returns and read by the return statement without synchronisation:
\* it is nil, or (served = FALSE) the error of a Serve that has already
\* failed.
StartServer(address, served) ==
  [err |-> IF served THEN "nil" ELSE "ServeError",
   Address |-> OrDefault(address),
   Server |-> IF served THEN "serving" ELSE "stopped"]

\* NewProcessManager / NewRestarter: default the address, acquire the
\* listener, start the server; an acquisition error is returned to the caller.
New ==
  /\ pc = "start"
  /\ \E bindOK \in BOOLEAN, served \in BOOLEAN :
       LET a == CreateOrImportListener(OrDefault(Address), listenerEnv, fd3, bindOK)
           s == StartServer(a.Address, served)
       IN  /\ imp' = a.imp
           /\ NetListener' = a.NetListener
           /\ IF a.res = "panic"
              THEN /\ pc' = "panicked"
                   /\ acqErr' = "none"
                   /\ newErr' = "none"
                   /\ Address' = a.Address
                   /\ Server' = "none"
              ELSE IF a.res = "error"
              THEN /\ pc' = "failed"
                   /\ acqErr' = a.err
                   /\ newErr' = a.err
                   /\ Address' = a.Address
                   /\ Server' = "none"
              ELSE /\ pc' = IF s.err = "nil" THEN "constructed" ELSE "failed"
                   /\ acqErr' = a.err
                   /\ newErr' = s.err
                   /\ Address' = s.Address
                   /\ Server' = s.Server
  /\ UNCHANGED <<procVars, loopVars, chanVars, Sub>>

\* The caller's pm.Sub = x between construction and Run.
SetSub ==
  /\ pc = "constructed"
  /\ Sub = "nil"
  /\ Sub' = "x"
  /\ UNCHANGED <<procVars, acqVars, loopVars, chanVars, Server, pc>>

\* Run up to the loop: go p.Sub.Run() (a method call on a nil interface
\* panics) and signal.Notify.
Run ==
  /\ pc = "constructed"
  /\ pc' = IF Sub = "nil" THEN "panicked" ELSE "select"
  /\ UNCHANGED <<procVars, acqVars, loopVars, chanVars, Server, Sub>>

(* ----------------------------- environment ---------------------------- *)
\* Where the process is between signal.Notify and the return of Run.
Running == pc \in {"select", "yield", "sleeping", "forking", "shutting"}

\* An unbuffered signal channel: the non-blocking send drops the signal
\* unless the loop is waiting at its select.
Deliver_Unbuffered ==
  /\ Running
  /\ delivered < MaxSignals
  /\ \E s \in Signals :
       Signal' = IF pc = "select" /\ Len(Signal) < SignalCap THEN Append(Signal, s) ELSE Signal
  /\ delivered' = delivered + 1
  /\ UNCHANGED <<procVars, acqVars, loopVars, Server, Sub, chError, chDone, sent, pc>>

\* The OS delivers a signal: signal.Notify's non-blocking send drops it when
\* the channel is full.
Deliver ==
  /\ Running
  /\ delivered < MaxSignals
  /\ \E s \in Signals :
       Signal' = IF Len(Signal) < SignalCap THEN Append(Signal, s) ELSE Signal
  /\ delivered' = delivered + 1
  /\ UNCHANGED <<procVars, acqVars, loopVars, Server, Sub, chError, chDone, sent, pc>>

\* The Subordinate starts a send on its error channel.
SubError ==
  /\ Running
  /\ sent < MaxSubEvents
  /\ \E e \in ErrorValues : chError' = Append(chError, e)
  /\ sent' = sent + 1
  /\ UNCHANGED <<procVars, acqVars, loopVars, Server, Sub, Signal, chDone, delivered, pc>>

\* The Subordinate starts a send on its done channel.
SubDone ==
  /\ Running
  /\ sent < MaxSubEvents
  /\ \E b \in DoneValues(impl) : chDone' = Append(chDone, b)
  /\ sent' = sent + 1
  /\ UNCHANGED <<procVars, acqVars, loopVars, Server, Sub, Signal, chError, delivered, pc>>

(* ------------------------------ loop steps ---------------------------- *)
\* A handler started for a trigger while another is still being handled.
AtSelect_Concurrent == pc \in {"select", "sleeping", "forking"}

\* for { select { ... } }: the loop is at its select, the previous
\* iteration over.
AtSelect == pc = "select"

\* The restart branches without w := p.Sub.WaitTime(); time.Sleep(w).
Enter_NoWait(v, c) ==
  /\ trigger' = v
  /\ case' = c
  /\ IF c = "shutdown"
     THEN /\ pc' = "shutting"
          /\ acts' = <<"Shutdown">>
          /\ Server' = "shuttingdown"
     ELSE IF c = "none"
     THEN /\ pc' = "select"
          /\ acts' = <<>>
          /\ UNCHANGED Server
     ELSE /\ pc' = "sleeping"
          /\ acts' = <<>>
          /\ UNCHANGED Server
  /\ UNCHANGED <<procVars, acqVars, Sub, inFork, forkErr, shutdownRes, ret, spawned,
                 delivered, sent>>

\* The loop enters the branch c for the value v it received: a shutdown
\* branch calls Server.Shutdown, a restart branch calls Sub.WaitTime() and
\* sleeps, a no-op branch goes back to the select.
Enter(v, c) ==
  /\ trigger' = v
  /\ case' = c
  /\ IF c = "shutdown"
     THEN /\ pc' = "shutting"
          /\ acts' = <<"Shutdown">>
          /\ Server' = "shuttingdown"
     ELSE IF c = "none"
     THEN /\ pc' = "select"
          /\ acts' = <<>>
          /\ UNCHANGED Server
     ELSE /\ pc' = "sleeping"
          /\ acts' = <<"WaitTime">>
          /\ UNCHANGED Server
  /\ UNCHANGED <<procVars, acqVars, Sub, inFork, forkErr, shutdownRes, ret, spawned,
                 delivered, sent>>

\* case s := <-p.Signal
RecvSignal ==
  /\ AtSelect
  /\ Signal # <<>>
  /\ Signal' = Tail(Signal)
  /\ Enter(Head(Signal), SignalCase(Head(Signal)))
  /\ UNCHANGED <<chError, chDone>>

\* case e := <-p.Sub.Error()
RecvError ==
  /\ AtSelect
  /\ chError # <<>>
  /\ chError' = Tail(chError)
  /\ Enter(IF Head(chError) = "nil" THEN "error:nil" ELSE "error", ErrorCase(Head(chError)))
  /\ UNCHANGED <<Signal, chDone>>

\* case <-p.Sub.Done() / case b := <-r.Sub.Done()
RecvDone ==
  /\ AtSelect
  /\ chDone # <<>>
  /\ chDone' = Tail(chDone)
  /\ Enter(IF Head(chDone) = "false" THEN "done:false" ELSE "done", DoneCase(impl, Head(chDone)))
  /\ UNCHANGED <<Signal, chError>>

\* ProcessManager only: default: time.Sleep(100 * time.Millisecond), taken
\* when no channel is ready.
Yield ==
  /\ pc = "select"
  /\ impl = "pm"
  /\ Signal = <<>> /\ chError = <<>> /\ chDone = <<>>
  /\ pc' = "yield"
  /\ UNCHANGED <<procVars, acqVars, loopVars, chanVars, Server, Sub>>

\* The 100 ms sleep ends.
Wake ==
  /\ pc = "yield"
  /\ pc' = "select"
  /\ UNCHANGED <<procVars, acqVars, loopVars, chanVars, Server, Sub>>

\* time.Sleep(w) ends and the loop calls ForkChild.
CallForkChild ==
  /\ pc = "sleeping"
  /\ pc' = "forking"
  /\ acts' = Append(acts, "ForkChild")
  /\ inFork' = inFork + 1
  /\ UNCHANGED <<procVars, acqVars, chanVars, Server, Sub, trigger, case, forkErr,
                 shutdownRes, ret, spawned>>

\* ForkChild returns and the loop continues, or clears Sub and/or calls
\* Server.Shutdown, as the branch says.
ForkChildReturn ==
  /\ pc = "forking"
  /\ \E os \in ForkOutcomes :
       LET f == ForkChild(NetListener, Address, os)
           n == AfterFork(case, f.err)
       IN  /\ forkErr' = f.err
           /\ Address' = f.Address
           /\ spawned' = IF f.err = "nil" THEN Append(spawned, f.listenerEnv) ELSE spawned
           /\ Sub' = IF n.clearSub THEN "nil" ELSE Sub
           /\ IF n.next = "shutdown"
              THEN /\ pc' = "shutting"
                   /\ acts' = acts \o (IF n.clearSub THEN <<"ClearSub">> ELSE <<>>)
                                   \o <<"Shutdown">>
                   /\ Server' = "shuttingdown"
              ELSE /\ pc' = "select"
                   /\ acts' = acts
                   /\ Server' = Server
  /\ inFork' = inFork - 1
  /\ UNCHANGED <<procVars, chanVars, NetListener, imp, acqErr, newErr, trigger, case,
                 shutdownRes, ret>>

\* Run goes back to its select after Server.Shutdown instead of returning.
ShutdownReturn_LoopsOn ==
  /\ pc = "shutting"
  /\ \E drained \in BOOLEAN :
       /\ shutdownRes' = Shutdown(drained)
       /\ ret' = "none"
  /\ Server' = "closed"
  /\ pc' = "select"
  /\ acts' = acts
  /\ UNCHANGED <<procVars, acqVars, chanVars, Sub, trigger, case, inFork, forkErr, spawned>>

\* Server.Shutdown returns and Run returns its result.
ShutdownReturn ==
  /\ pc = "shutting"
  /\ \E drained \in BOOLEAN :
       /\ shutdownRes' = Shutdown(drained)
       /\ ret' = RunResult(Shutdown(drained), forkErr)
  /\ Server' = "closed"
  /\ pc' = "returned"
  /\ acts' = Append(acts, "Return")
  /\ UNCHANGED <<procVars, acqVars, chanVars, Sub, trigger, case, inFork, forkErr, spawned>>

Next ==
  \/ New
  \/ SetSub
  \/ Run
  \/ Deliver
  \/ SubError
  \/ SubDone
  \/ RecvSignal
  \/ RecvError
  \/ RecvDone
  \/ Yield
  \/ Wake
  \/ CallForkChild
  \/ ForkChildReturn
  \/ ShutdownReturn

Spec == Init /\ [][Next]_vars

\* The loop under the scheduling the code relies on: a select that does not
\* starve the signal channel when it is ready again and again, sleeps
\* (WaitTime, the 100 ms of the default case) that end, a ForkChild that
\* returns, and a Server.Shutdown bounded by its 5-second context.
Fairness ==
  /\ SF_vars(RecvSignal)
  /\ WF_vars(Wake)
  /\ WF_vars(CallForkChild)
  /\ WF_vars(ForkChildReturn)
  /\ WF_vars(ShutdownReturn)

\* The first process of a chain; how a child acquired its listener makes
\* no difference to the loop.
InitLive == Init /\ gen = 0

SpecLive == InitLive /\ [][Next]_vars /\ Fairness

(* ------------------- acquisition over all inputs ---------------------- *)
\* LISTENER texts: unset, not JSON, null, and objects whose members are
\* missing, well typed or of the wrong JSON type.
LISTENERValues ==
  {EmptyText, GarbageText, NullText} \cup
  {ObjectText(a, f, n) :
     a \in {Missing, Num(1)} \cup {Str(x) : x \in Addresses},
     f \in {Missing, Str("3")} \cup {Num(x) : x \in {-1, 0, ChildFD, 5}},
     n \in {Missing} \cup {Str(x) : x \in Filenames}}

\* What may sit at descriptor 3 when the process starts.
FD3Values ==
  {ClosedFD, StdioFD, SocketFD("unix", "/tmp/pm.sock")} \cup
  {SocketFD("tcp", a) : a \in Addresses}

InitAcq ==
  /\ impl \in {"pm", "rs"}
  /\ Address \in {""} \cup Addresses
  /\ listenerEnv \in LISTENERValues
  /\ environ = IF listenerEnv = EmptyText THEN <<>> ELSE <<listenerEnv>>
  /\ gen = 0
  /\ handed = EmptyText
  /\ elderOpen = FALSE
  /\ stopHandled = FALSE
  /\ pair = StartPair
  /\ received = <<>>
  /\ fd3 \in FD3Values
  /\ Fresh

\* A direct call of the exported CreateOrImportListener on a supervisor
\* value whose Address is as the caller left it (possibly empty).
CreateOrImport ==
  /\ pc = "start"
  /\ \E bindOK \in BOOLEAN :
       LET a == CreateOrImportListener(Address, listenerEnv, fd3, bindOK)
       IN  /\ imp' = a.imp
           /\ NetListener' = a.NetListener
           /\ Address' = a.Address
           /\ acqErr' = IF a.res = "panic" THEN "none" ELSE a.err
           /\ newErr' = newErr
           /\ pc' = CASE a.res = "panic" -> "panicked"
                      [] a.res = "error" -> "failed"
                      [] OTHER -> "acquired"
  /\ UNCHANGED <<procVars, loopVars, chanVars, Server, Sub>>

NextAcq ==
  \/ New
  \/ CreateOrImport

SpecAcq == InitAcq /\ [][NextAcq]_vars

(* ----------------------- chains of generations ------------------------ *)
\* The model turns to a child this process started: the child runs the
\* same executable with the environment and the descriptor 3 that ForkChild
\* gave it, and its main passes New the address of its own configuration.
\* The process left behind keeps the socket open if its server is serving
\* (Server.Shutdown closes the listener when called); it has handled a
\* shutdown trigger if that is the branch it is in.
ChildStart ==
  /\ gen < MaxGenerations
  /\ spawned # <<>>
  /\ pc \in {"select", "yield", "shutting", "returned"}
  /\ gen' = gen + 1
  /\ impl' = impl
  /\ handed' = spawned[Len(spawned)]
  /\ elderOpen' = (Server = "serving" \/ (elderOpen /\ NetListener.origin = "imported"))
  /\ stopHandled' = (stopHandled \/ case = "shutdown")
  /\ UNCHANGED <<pair, received>>
  /\ environ' = ChildEnviron(environ, spawned[Len(spawned)])
  /\ listenerEnv' = Getenv(environ')
  /\ fd3' = SocketFD(NetListener.kind, NetListener.addr)
  /\ Address' \in Addresses
  /\ NetListener' = NilListener
  /\ Server' = "none"
  /\ Signal' = <<>>
  /\ Sub' = "nil"
  /\ chError' = <<>>
  /\ chDone' = <<>>
  /\ pc' = "start"
  /\ trigger' = "none"
  /\ case' = "none"
  /\ acts' = <<>>
  /\ inFork' = 0
  /\ forkErr' = "none"
  /\ shutdownRes' = "none"
  /\ ret' = "none"
  /\ imp' = NoImport
  /\ acqErr' = "none"
  /\ newErr' = "none"
  /\ spawned' = <<>>
  /\ delivered' = 0
  /\ sent' = 0

\* The first process of a chain: no LISTENER entry, nothing at descriptor 3.
InitChain ==
  /\ impl \in {"pm", "rs"}
  /\ Address \in Addresses
  /\ gen = 0
  /\ handed = EmptyText
  /\ elderOpen = FALSE
  /\ stopHandled = FALSE
  /\ pair = StartPair
  /\ received = <<>>
  /\ environ = <<>>
  /\ listenerEnv = Getenv(environ)
  /\ fd3 = ClosedFD
  /\ Fresh

NextChain ==
  \/ New
  \/ SetSub
  \/ Run
  \/ Deliver
  \/ RecvSignal
  \/ CallForkChild
  \/ ForkChildReturn
  \/ ShutdownReturn
  \/ ChildStart

SpecChain == InitChain /\ [][NextChain]_vars

(* ------------------- the two loops side by side ---------------------- *)
\* What a loop may receive: a signal, nil or a non-nil error on Sub.Error(),
\* a done signal (struct{}{} for ProcessManager, true for Restarter).
Events == Signals \cup {"error:nil", "error", "done"}

\* The listener both supervisors serve on.
PairListener == [kind |-> "tcp", addr |-> DefaultAddress, origin |-> "created"]

\* The branch the loop of implementation im takes for the event ev.
EventCase(im, ev) ==
  IF ev \in Signals THEN SignalCase(ev)
  ELSE IF ev = "error:nil" THEN ErrorCase("nil")
  ELSE IF ev = "error" THEN ErrorCase("err")
  ELSE DoneCase(im, IF im = "pm" THEN "unit" ELSE "true")

\* One iteration of Run of implementation im from the loop state st, for
\* the received event ev, with os what the OS does to a ForkChild call and
\* drained whether Server.Shutdown finishes in time: the calls are appended
\* to the log of the run.
RunStep(im, st, ev, os, drained) ==
  LET c == EventCase(im, ev)
      f == ForkChild(PairListener, DefaultAddress, os)
      n == AfterFork(c, f.err)
      down(l, sub) == [pc |-> "returned", Sub |-> sub, Server |-> "closed",
                       log |-> Append(l, "Shutdown"),
                       ret |-> RunResult(Shutdown(drained), f.err)]
  IN  IF c = "none" THEN st
      ELSE IF c = "shutdown" THEN down(st.log, st.Sub)
      ELSE IF n.next = "shutdown"
      THEN down(st.log \o <<"WaitTime", "ForkChild">>, IF n.clearSub THEN "nil" ELSE st.Sub)
      ELSE [st EXCEPT !.log = st.log \o <<"WaitTime", "ForkChild">>]

\* The same value is received by both loops, and their ForkChild and
\* Server.Shutdown calls end the same way.
PairReceive ==
  /\ Len(received) < MaxReceived
  /\ pair.pm.pc = "select" /\ pair.rs.pc = "select"
  /\ \E ev \in Events, os \in ForkOutcomes, drained \in BOOLEAN :
       /\ received' = Append(received, ev)
       /\ pair' = [pm |-> RunStep("pm", pair.pm, ev, os, drained),
                   rs |-> RunStep("rs", pair.rs, ev, os, drained)]
  /\ UNCHANGED <<impl, gen, environ, handed, elderOpen, stopHandled, listenerEnv, fd3,
                 acqVars, loopVars, chanVars, Server, Sub, pc>>

\* ProcessManager.Run alone: nothing is ready, the default case sleeps.
PairYield ==
  /\ pair.pm.pc = "select"
  /\ pair' = [pair EXCEPT !.pm.pc = "yield"]
  /\ UNCHANGED <<impl, gen, environ, handed, elderOpen, stopHandled, listenerEnv, fd3,
                 received, acqVars, loopVars, chanVars, Server, Sub, pc>>

\* The 100 ms sleep of ProcessManager.Run ends.
PairWake ==
  /\ pair.pm.pc = "yield"
  /\ pair' = [pair EXCEPT !.pm.pc = "select"]
  /\ UNCHANGED <<impl, gen, environ, handed, elderOpen, stopHandled, listenerEnv, fd3,
                 received, acqVars, loopVars, chanVars, Server, Sub, pc>>

InitPair == Init /\ gen = 0 /\ impl = "pm"

NextPair == PairReceive \/ PairYield \/ PairWake

SpecPair == InitPair /\ [][NextPair]_vars

(* ------------------------ properties: acquisition --------------------- *)
\* An ImportListener call has been made (by the constructor or directly).
Acquired == imp.res # "none"
\* After the call Address holds the configured address, defaulted.
Absent == listenerEnv.kind = "empty"
Malformed == ~Absent /\ Unmarshal(listenerEnv).err # "nil"
Mismatched == ~Absent /\ ~Malformed /\ Unmarshal(listenerEnv).l.Address # Address
FreshOnConfigured ==
  NetListener = [kind |-> "tcp", addr |-> Address, origin |-> "created"]

\* C6 as stated: for an absent, malformed or mismatched LISTENER value,
\* CreateOrImportListener returns no error and leaves NetListener a freshly
\* bound listener on the configured address.
FallbackNeverErrors ==
  (Acquired /\ (Absent \/ Malformed \/ Mismatched)) =>
    /\ acqErr = "nil"
    /\ FreshOnConfigured

\* C6 amended: for an absent, malformed or mismatched LISTENER value the
\* import error is never returned; CreateOrImportListener either leaves
\* NetListener a freshly bound listener on the configured address and
\* returns nil, or returns the error of net.Listen and leaves NetListener nil.
FallbackReturnsOnlyBindError ==
  (Acquired /\ (Absent \/ Malformed \/ Mismatched)) =>
    /\ imp.res = "error"
    /\ \/ acqErr = "nil" /\ FreshOnConfigured
       \/ acqErr = "BindError" /\ NetListener = NilListener /\ pc = "failed"

\* A mismatched descriptor whose descriptor 3 is a listening socket was
\* passed over and a fresh listener bound.
FallbackWitness ==
  /\ Acquired /\ Mismatched
  /\ Unmarshal(listenerEnv).l.FD = ChildFD /\ fd3.kind = "tcp"
  /\ acqErr = "nil" /\ FreshOnConfigured

\* C7: when the decoded descriptor's address differs from the configured
\* address (an empty one replaced by the default), ImportListener returns an
\* error and builds no file and no listener; in every call the address check
\* comes before os.NewFile and net.FileListener.
AddressGuard ==
  /\ (Acquired /\ Mismatched) =>
       /\ imp.res = "error"
       /\ imp.ln = NilListener
       /\ \A i \in DOMAIN imp.steps : imp.steps[i] \notin {"NewFile", "FileListener"}
  /\ \A i \in DOMAIN imp.steps :
       imp.steps[i] \in {"NewFile", "FileListener"} =>
         \E j \in 1..(i - 1) : imp.steps[j] = "AddressCheck"
  /\ Acquired => Address # ""

\* The guard refused a descriptor that names an open listening socket, for
\* a supervisor whose empty address was replaced by the default.
AddressGuardWitness ==
  /\ Acquired /\ Mismatched
  /\ imp.err = "AddressMismatch"
  /\ Unmarshal(listenerEnv).l = Listener(":8008", ChildFD, CHOOSE n \in Filenames : TRUE)
  /\ fd3 = SocketFD("tcp", ":8008")
  /\ Address = DefaultAddress
  /\ pc = "acquired"

(* -------------------------- properties: the loop ---------------------- *)
WaitForkActs == <<"WaitTime", "ForkChild">>
HandoffActs == <<"WaitTime", "ForkChild", "ClearSub", "Shutdown">>
RestartActs == <<"WaitTime", "ForkChild", "Shutdown">>
Returned(a) == Append(a, "Return")
Has(a, x) == \E i \in DOMAIN a : a[i] = x
\* A step of the loop that takes a value from one of the three channels.
Dequeues ==
  \/ Len(Signal') < Len(Signal)
  \/ Len(chError') < Len(chError)
  \/ Len(chDone') < Len(chDone)

\* C1: once SIGINT or SIGQUIT is dequeued the loop has called
\* Server.Shutdown and then returns; that step holds no WaitTime and no
\* ForkChild call and starts no child, whatever else is pending.
ShutdownDeterminism ==
  trigger \in {"SIGINT", "SIGQUIT"} =>
    /\ pc \in {"shutting", "returned"}
    /\ acts = IF pc = "shutting" THEN <<"Shutdown">> ELSE Returned(<<"Shutdown">>)
    /\ Server = IF pc = "shutting" THEN "shuttingdown" ELSE "closed"
    /\ inFork = 0

\* Run returned on SIGINT with a signal and a Subordinate error pending.
ShutdownDeterminismWitness ==
  /\ trigger = "SIGINT" /\ pc = "returned"
  /\ Signal # <<>> /\ chError # <<>>

\* C2: while SIGUSR2 is the trigger being handled (or the last handled)
\* Server.Shutdown has not been called and Run has not returned; after the
\* wait and the fork attempt the loop is back at its select with the server
\* serving and Sub as it was, whether ForkChild succeeded or not.
RestartWithoutHandoffKeepsServing ==
  trigger = "SIGUSR2" =>
    /\ pc \in {"sleeping", "forking", "select", "yield"}
    /\ Server = "serving"
    /\ Sub = "x"
    /\ ret = "none" /\ shutdownRes = "none"
    /\ ~Has(acts, "Shutdown")
    /\ pc \in {"select", "yield"} => acts = WaitForkActs /\ forkErr \in ((ForkOutcomes \ {"ok"}) \cup {"nil"})

\* Two SIGUSR2 were handled, the first fork succeeded, the second failed,
\* and the loop is back at its select.
RestartWithoutHandoffWitness ==
  /\ trigger = "SIGUSR2" /\ pc = "select"
  /\ delivered = 2 /\ Signal = <<>> /\ sent = 0
  /\ Len(spawned) = 1 /\ forkErr = "StartProcessError"

\* C3: handling SIGHUP is WaitTime and sleep, then ForkChild, then, only
\* after ForkChild returned nil, Sub = nil, Server.Shutdown and the return
\* from Run, in this order and with nothing else in between.
HandoffOrder ==
  trigger = "SIGHUP" =>
    /\ pc = "sleeping" => acts = <<"WaitTime">>
    /\ pc = "forking" => acts = WaitForkActs
    /\ pc \in {"select", "yield"} => acts = WaitForkActs /\ forkErr # "nil"
    /\ pc = "shutting" => acts = HandoffActs
    /\ pc = "returned" => acts = Returned(HandoffActs) /\ ret = shutdownRes
    /\ Has(acts, "Shutdown") => forkErr = "nil" /\ Sub = "nil"
    /\ Sub = "nil" <=> Has(acts, "ClearSub")
    /\ pc \in {"sleeping", "forking", "select", "yield", "shutting", "returned"}

\* Run returned after a SIGHUP whose fork succeeded.
HandoffOrderWitness ==
  /\ trigger = "SIGHUP" /\ pc = "returned"
  /\ spawned # <<>> /\ Sub = "nil" /\ Server = "closed"

\* C4 as stated: a non-nil Subordinate error and SIGHUP lead Run to return
\* after the same calls and in the same supervisor state, Sub included.
ErrorLikeHangup ==
  (pc = "returned" /\ trigger \in {"SIGHUP", "error"}) =>
    /\ acts = Returned(HandoffActs)
    /\ Sub = "nil"
    /\ forkErr = "nil"

\* C5: a ForkChild that returns an error, on any of the three restart
\* paths, leaves the loop at its select: Run has not returned, the server
\* serves, Sub is as it was, no child was started; and the loop starts a
\* wait-and-fork only in the step that dequeues a trigger.
ForkFailureContinues ==
  [][/\ (pc = "forking" /\ pc' # "forking" /\ forkErr' # "nil") =>
          /\ case \in {"handoff", "fork", "restart"}
          /\ pc' = "select"
          /\ ret' = "none" /\ shutdownRes' = "none"
          /\ Server' = "serving" /\ Server = "serving"
          /\ Sub' = Sub /\ Sub = "x"
          /\ spawned' = spawned
          /\ acts' = WaitForkActs
          /\ inFork' = 0
     /\ (pc # "sleeping" /\ pc' = "sleeping") => Dequeues
     /\ (pc # "forking" /\ pc' = "forking") => pc = "sleeping" /\ acts = <<"WaitTime">>
    ]_vars

\* A Subordinate error was handled, the fork failed, and the loop is back
\* at its select with the error channel and the signal channel not empty.
ForkFailureWitness ==
  /\ trigger = "error" /\ forkErr = "ExecutableError" /\ pc = "select"
  /\ Sub = "x" /\ Server = "serving" /\ spawned = <<>>
  /\ Signal # <<>>

\* C8: a trigger is dequeued only when the handling of the previous one is
\* over (the loop is at its select and no ForkChild is in progress), and at
\* most one ForkChild call is in progress at any time.
OneTriggerAtATime ==
  [][/\ Dequeues => pc = "select" /\ inFork = 0
     /\ inFork' \in {0, 1}
     /\ inFork' = 1 <=> pc' = "forking"
    ]_vars

\* Two signals and a done value are queued while a ForkChild is in progress.
OneTriggerWitness ==
  /\ pc = "forking" /\ inFork = 1
  /\ Len(Signal) = 2 /\ chDone # <<>>

\* C9: a done signal leads to Server.Shutdown and the return with no
\* WaitTime and no ForkChild; ProcessManager does so on any receipt,
\* Restarter only on true: after a received false it is back at its select.
DoneShutsDown ==
  /\ trigger = "done" =>
       /\ pc \in {"shutting", "returned"}
       /\ acts = IF pc = "shutting" THEN <<"Shutdown">> ELSE Returned(<<"Shutdown">>)
       /\ inFork = 0
  /\ trigger = "done:false" =>
       /\ impl = "rs"
       /\ pc = "select" /\ acts = <<>>
       /\ Server = "serving" /\ ret = "none" /\ shutdownRes = "none"
  /\ impl = "pm" => trigger # "done:false"

\* Restarter received false and then true on its done channel and returned.
DoneShutsDownWitness ==
  /\ impl = "rs" /\ trigger = "done" /\ pc = "returned"
  /\ sent = 2 /\ chDone = <<>> /\ chError = <<>> /\ delivered = 0
  /\ forkErr = "none"

\* C10: Run returns only after Server.Shutdown returned, and returns its
\* value (nil or the timeout error), on SIGHUP or a non-nil error after a
\* successful fork, on SIGINT/SIGQUIT and on done; a ForkChild error is
\* never returned.
RunReturnsShutdownResult ==
  /\ pc = "returned" =>
       /\ shutdownRes \in {"nil", "DeadlineExceeded"}
       /\ ret = shutdownRes
       /\ Len(acts) >= 2
       /\ acts[Len(acts) - 1] = "Shutdown" /\ acts[Len(acts)] = "Return"
       /\ trigger \in {"SIGHUP", "SIGINT", "SIGQUIT", "error", "done"}
       /\ trigger \in {"SIGHUP", "error"} => forkErr = "nil"
  /\ pc # "returned" => ret = "none" /\ shutdownRes = "none"

\* Run returned the timeout error of a shutdown that followed a SIGUSR2
\* whose fork failed and a SIGHUP whose fork succeeded.
RunReturnsWitness ==
  /\ pc = "returned" /\ ret = "DeadlineExceeded"
  /\ trigger = "SIGHUP" /\ delivered = 2 /\ Len(spawned) = 1

\* SIGINT or SIGQUIT is in the signal channel of a running loop.
InterruptQueued ==
  /\ Running
  /\ \E i \in DOMAIN Signal : Signal[i] \in {"SIGINT", "SIGQUIT"}

\* A step in which the loop starts to handle a signal.
HandlesSignal ==
  /\ pc = "select" /\ pc' # "select" /\ pc' # "yield"
  /\ trigger' \in Signals

\* C14: a signal delivered while the loop sleeps in WaitTime or is inside
\* ForkChild (or at any other point of the loop) is appended to the signal
\* channel; the channel changes in no other way than by that and by the
\* loop taking its head at the select; every handling of a signal is such
\* a dequeue of the head; and, under the fair scheduling, the k-th signal
\* delivered is dequeued (delivered - Len(Signal) signals have been) unless
\* Run returns first.
SignalsKeptAndHandledOnce ==
  /\ [][/\ delivered' # delivered =>
           /\ Len(Signal) < SignalCap
           /\ \E s \in Signals : Signal' = Append(Signal, s)
        /\ (Signal' # Signal /\ delivered' = delivered) =>
           /\ pc = "select" /\ Signal # <<>>
           /\ Signal' = Tail(Signal)
           /\ trigger' = Head(Signal) /\ case' = SignalCase(Head(Signal))
           /\ pc' \in {"sleeping", "shutting"}
        /\ HandlesSignal => Signal # <<>> /\ Signal' = Tail(Signal) /\ trigger' = Head(Signal)
       ]_vars
  /\ \A k \in 1..MaxSignals :
       (Running /\ delivered >= k)
         ~> (delivered - Len(Signal) >= k \/ pc \in {"shutting", "returned"})

\* Two signals were delivered while ForkChild was in progress for a
\* Subordinate error; the fork failed and the loop then took the first.
SignalsKeptWitness ==
  /\ trigger = "SIGUSR2" /\ pc = "sleeping"
  /\ Signal = <<"SIGHUP">> /\ delivered = 2
  /\ forkErr = "FileError" /\ sent = 1

\* C15: if SIGINT or SIGQUIT is in the signal channel while the loop is
\* running then, under the fair scheduling, Run eventually returns.
InterruptLeadsToReturn ==
  InterruptQueued ~> (pc = "returned")

\* Run returned on a SIGQUIT that was queued behind a SIGUSR2.
InterruptLeadsToReturnWitness ==
  /\ pc = "returned" /\ trigger = "SIGQUIT"
  /\ delivered = 2 /\ Len(spawned) = 1 /\ Signal = <<>>

\* SIGINT or SIGQUIT is at the head of the signal channel, no send of the
\* Subordinate is pending and the loop is handling nothing: whatever
\* trigger could lead to a ForkChild call is not ready yet.
InterruptFirst ==
  /\ pc \in {"select", "yield"}
  /\ Signal # <<>> /\ Head(Signal) \in {"SIGINT", "SIGQUIT"}
  /\ chError = <<>> /\ chDone = <<>>

\* C16 as stated: from the moment SIGINT or SIGQUIT is enqueued the loop
\* starts no ForkChild call for a trigger that became ready after it.
NoForkAfterInterruptQueued ==
  [](InterruptFirst => [](inFork = 0))

\* A step in which the loop receives nil from the error channel or false
\* from Restarter's done channel.
NoOpReceipt ==
  \/ chError # <<>> /\ Head(chError) = "nil" /\ chError' = Tail(chError)
  \/ chDone # <<>> /\ Head(chDone) = "false" /\ chDone' = Tail(chDone)

\* C17: the receipt of nil on the error channel, or of false on the boolean
\* done channel, calls no WaitTime, no ForkChild and no Server.Shutdown,
\* changes none of Sub, NetListener, Server (nor the address, the children
\* started, the results of Run) and leaves the loop at its select.
NoOpEventsChangeNothing ==
  [][NoOpReceipt =>
       /\ pc = "select" /\ pc' = "select"
       /\ acts' = <<>> /\ case' = "none"
       /\ trigger' \in {"error:nil", "done:false"}
       /\ Sub' = Sub /\ NetListener' = NetListener /\ Server' = Server
       /\ Server = "serving"
       /\ Address' = Address /\ spawned' = spawned /\ inFork' = inFork
       /\ forkErr' = forkErr /\ ret' = ret /\ shutdownRes' = shutdownRes
       /\ Signal' = Signal
    ]_vars

\* The loop received a nil error after a SIGUSR2 whose fork succeeded, with
\* a signal queued, and is at its select.
NoOpEventsWitness ==
  /\ trigger = "error:nil" /\ pc = "select" /\ acts = <<>>
  /\ Len(spawned) = 1 /\ forkErr = "nil" /\ Signal # <<>>

\* C18: in the calls of one handling step a ForkChild is the second call
\* and follows a WaitTime, which is the first and the only one; a ForkChild
\* in progress has exactly this prefix, on each restart path; the restart
\* paths, and only they, start with the wait; the shutdown paths hold
\* neither call.
WaitBeforeEveryFork ==
  /\ \A i \in DOMAIN acts :
       /\ acts[i] = "ForkChild" => i = 2 /\ acts[1] = "WaitTime"
       /\ acts[i] = "WaitTime" => i = 1
  /\ (pc = "forking" \/ inFork > 0) =>
       /\ acts = WaitForkActs
       /\ case \in {"handoff", "fork", "restart"}
  /\ pc = "sleeping" => acts = <<"WaitTime">>
  /\ (trigger \in {"SIGHUP", "SIGUSR2", "error"}) <=> (acts # <<>> /\ acts[1] = "WaitTime")
  /\ case \in {"shutdown", "none"} => ~Has(acts, "WaitTime") /\ ~Has(acts, "ForkChild")

\* A ForkChild is in progress for a Subordinate error, after the wait, in
\* a loop that forked for SIGUSR2 before.
WaitBeforeEveryForkWitness ==
  /\ pc = "forking" /\ trigger = "error" /\ acts = WaitForkActs
  /\ Len(spawned) = 1 /\ delivered = 1

\* C19: wherever the loop evaluates Sub.Error(), Sub.Done() (at its select)
\* or Sub.WaitTime() (on leaving it), and during the wait and the fork, Sub
\* is not nil; Sub is nil after Run started only by the assignment of the
\* SIGHUP branch after a successful fork, and then Server.Shutdown has been
\* called and the loop makes no further iteration; Run panics only at its
\* start, when Sub was not assigned.
SubNeverNilInLoop ==
  /\ pc \in {"select", "yield", "sleeping", "forking"} => Sub = "x"
  /\ (pc \in {"shutting", "returned"} /\ Sub = "nil") =>
       /\ trigger = "SIGHUP" /\ forkErr = "nil"
       /\ Has(acts, "ClearSub") /\ Has(acts, "Shutdown")
  /\ (pc = "panicked" /\ Server # "none") => Sub = "nil" /\ trigger = "none"

\* The loop is back at its select, with a Subordinate send pending, after a
\* SIGHUP whose fork failed and a SIGUSR2 whose fork succeeded.
SubNeverNilWitness ==
  /\ pc = "select" /\ Sub = "x" /\ trigger = "SIGHUP"
  /\ forkErr = "StartProcessError" /\ Len(spawned) = 1
  /\ chError # <<>>

\* C20: Server.Shutdown is called once in a Run; once it has been called
\* the loop takes no value from any channel, calls no ForkChild and starts
\* no child, and its only step is the return; what is queued stays queued.
ShutdownIsLast ==
  [][/\ (Server \in {"shuttingdown", "closed"}) =>
          /\ ~Dequeues
          /\ trigger' = trigger /\ case' = case
          /\ inFork = 0 /\ inFork' = 0
          /\ spawned' = spawned
          /\ pc' # pc => pc = "shutting" /\ pc' = "returned" /\ acts' = Returned(acts)
          /\ pc' = pc => acts' = acts
          /\ Server' \in {"shuttingdown", "closed"}
     /\ (Server' = "shuttingdown" /\ Server # "shuttingdown") =>
          /\ Server = "serving" /\ pc' = "shutting"
          /\ acts'[Len(acts')] = "Shutdown"
          /\ \A i \in 1..(Len(acts') - 1) : acts'[i] # "Shutdown"
     /\ Server' = "closed" => Server \in {"shuttingdown", "closed"}
    ]_vars

\* Run returned on done with a signal and a Subordinate error still queued.
ShutdownIsLastWitness ==
  /\ pc = "returned" /\ trigger = "done" /\ Server = "closed"
  /\ Signal # <<>> /\ chError # <<>>

(* -------------------------- properties: decoding ---------------------- *)
\* The text is not a JSON object or lacks one of address, fd, filename.
Incomplete(text) ==
  \/ text.kind # "object"
  \/ \E k \in {"address", "fd", "filename"} : text.m[k].t = "missing"

\* C12 as stated: for a LISTENER text that is not parseable or lacks one
\* of address, fd, filename, ImportListener returns an error and builds no
\* file and no listener, in particular none from the fd 0 that a missing fd
\* member decodes to.
DecodeRejectsIncomplete ==
  (Acquired /\ ~Absent /\ Incomplete(listenerEnv)) =>
    /\ imp.res = "error"
    /\ \A i \in DOMAIN imp.steps : imp.steps[i] \notin {"NewFile", "FileListener"}

(* ------------------------ properties: generations --------------------- *)
\* C11 as stated: in every generation of a chain the LISTENER text the
\* process reads at startup is the one its immediate parent encoded in the
\* ForkChild call that started it.
ChildReadsParentDescriptor ==
  gen > 0 => listenerEnv = handed

\* The process has not exited: New did not fail and Run has not returned.
Live == pc \notin {"failed", "panicked", "returned"}
\* The process has an open descriptor of the socket of the handoff: the
\* first process its own listener; a child the descriptor 3 it was started
\* with (until ImportListener wraps and closes it) or the listener it
\* imported from it.
HoldsSocket ==
  /\ Live
  /\ IF gen = 0
     THEN NetListener.origin = "created" /\ Server = "serving"
     ELSE \/ pc = "start" /\ fd3.kind \in {"tcp", "unix"}
          \/ NetListener.origin = "imported" /\ Server = "serving"
          \/ pc # "start" /\ ~Has(imp.steps, "NewFile") /\ fd3.kind \in {"tcp", "unix"}

\* C13 as stated: from the first successful bind until some generation handles
\* SIGINT, SIGQUIT or done, a live process has the socket open: this
\* process, an older generation, or a child it started.  Stated for a child
\* configured for the address of the socket it was handed, and leaving
\* aside a Serve that fails at once and a Run that panics.
SocketAlwaysOwned ==
  (/\ gen > 0 \/ Server # "none"
   /\ pc # "panicked"
   /\ ~stopHandled /\ case # "shutdown"
   /\ gen > 0 => Address = fd3.addr
   /\ newErr # "ServeError")
  => (HoldsSocket \/ elderOpen \/ spawned # <<>>)

====
